---- MODULE Spec2Model ----
(***************************************************************************)
(* Model of heatclient/v1/shell.py: the parameter-string parser            *)
(* (format_parameters), the template-source resolver                       *)
(* (_set_template_fields) and the seven command handlers (do_create,       *)
(* do_delete, do_describe, do_update, do_list, do_gettemplate,             *)
(* do_validate).  One command is dispatched per process; the remote client *)
(* hc, the local file and the JSON decoder are the environment.            *)
(***************************************************************************)
EXTENDS Integers, Sequences, FiniteSets, TLC

VARIABLES
    pc,        \* "ready" before the handler runs, "done" after it ended
    cmd,       \* the subcommand of the command line ("" in SpecParse)
    cli,       \* the -c/--create-timeout flag as typed: << >> or << n >>
    arguments, \* the arguments record handed to the handler
    log,       \* the blocking calls the handler made, in order
    sent,      \* the keyword arguments of each hc.stacks.* call, in order
    payload,   \* the payload dict at the handler's exit: << >> or << dict >>
    raised,    \* the exception that left the handler (kind "" when none)
    printed,   \* what the handler wrote to standard output, in order
    parsed     \* the outcome of format_parameters (SpecParse)

vars == <<pc, cmd, cli, arguments, log, sent, payload, raised, printed, parsed>>

---------------------------------------------------------------------------
(* Bounds of the model. *)

\* longest parameter string given to format_parameters alone (SpecParse)
MaxLen == 7

\* longest -P/--parameters string given to a command (Spec)
MaxArgLen == 3

\* the characters of the parameter strings given to format_parameters alone
Alphabet == {"a", "b", "=", ";", " "}

\* the characters of the -P/--parameters strings given to a command
ArgAlphabet == {"a", "=", ";"}

RECURSIVE StringsUpTo(_, _)
StringsUpTo(n, chars) ==
    IF n = 0 THEN {<< >>}
    ELSE LET shorter == StringsUpTo(n - 1, chars)
         IN  shorter \cup {Append(s, c) : s \in {t \in shorter : Len(t) = n - 1},
                                           c \in chars}

---------------------------------------------------------------------------
(* Python values. *)

\* None, for an argument that holds an atomic string (a path, a URL, a body)
None == "<None>"

\* None, for the -P/--parameters argument (a character sequence when given)
NoParams == [given |-> FALSE, text |-> << >>]
Params(s) == [given |-> TRUE, text |-> s]

\* mutant of Truthy: the test "is not None", which takes '' for a value
Truthy_IsNotNone(x) == x # None

\* truth value of an optional atomic string: None and '' are falsy
Truthy(x) == x # None /\ x # ""

\* truth value of the optional parameter string
TruthyParams(p) == p.given /\ p.text # << >>

\* an empty dict
EmptyDict == [k \in {} |-> << >>]

\* d[k] = v on a dict
SetItem(d, k, v) == [x \in (DOMAIN d) \cup {k} |-> IF x = k THEN v ELSE d[x]]

\* no exception
NoExc == [kind |-> "", msg |-> ""]
Exc(kind, msg) == [kind |-> kind, msg |-> msg]

---------------------------------------------------------------------------
(* str.split(sep): the pieces between the separators, empty pieces kept. *)

RECURSIVE SplitFrom(_, _, _, _, _)
SplitFrom(s, sep, i, cur, acc) ==
    IF i > Len(s) THEN Append(acc, cur)
    ELSE IF s[i] = sep THEN SplitFrom(s, sep, i + 1, << >>, Append(acc, cur))
    ELSE SplitFrom(s, sep, i + 1, Append(cur, s[i]), acc)

Split(s, sep) == SplitFrom(s, sep, 1, << >>, << >>)

\* mutant of Unpack2: a name and a value are taken from the first two pieces
\* (as p.split('=', 2)[:2] would), whatever follows
Unpack2_IgnoreRest(parts) ==
    IF Len(parts) < 2
    THEN [exc |-> Exc("ValueError", "need more than 1 value to unpack")]
    ELSE [exc |-> NoExc, n |-> parts[1], v |-> parts[2]]

\* (n, v) = p.split('='): the tuple unpacking and its ValueError
Unpack2(parts) ==
    IF Len(parts) < 2
    THEN [exc |-> Exc("ValueError", "need more than 1 value to unpack")]
    ELSE IF Len(parts) > 2
    THEN [exc |-> Exc("ValueError", "too many values to unpack")]
    ELSE [exc |-> NoExc, n |-> parts[1], v |-> parts[2]]

\* the for loop of format_parameters from segment i on
RECURSIVE ParamLoop(_, _, _)
ParamLoop(segs, i, parameters) ==
    IF i > Len(segs) THEN [exc |-> NoExc, value |-> parameters]
    ELSE LET u == Unpack2(Split(segs[i], "="))
         IN  IF u.exc # NoExc THEN [exc |-> u.exc]
             ELSE ParamLoop(segs, i + 1, SetItem(parameters, u.n, u.v))

format_parameters(params) ==
    IF TruthyParams(params)
    THEN ParamLoop(Split(params.text, ";"), 1, EmptyDict)
    ELSE [exc |-> NoExc, value |-> EmptyDict]

---------------------------------------------------------------------------
(* The environment: the local file, the JSON decoder, the remote client. *)

\* a Python list, kept apart from a dict (a dict is a function on its keys)
PyList(items) == <<"list", items>>

\* the texts json.loads is modelled on: JSON documents of every kind, and
\* texts that are cut short
JsonTexts ==
    {"{\"a\":1}", "{ \"a\" : 1 }", " {\"a\":1}", "{\"a\":2}", "{\"Resources\":{}}",
     "{}", "[]", "[1]", "null", "1", "\"a\"", "true", "{bad", "{"}

\* the JSON documents among them
JsonDocuments == JsonTexts \ {"{bad", "{"}

\* the decoder a build runs json.loads with, on which the wording of its
\* error depends: the C scanner given a byte string, the C scanner given a
\* unicode string, or the pure-Python scanner
Decoders == {"c_str", "c_unicode", "py"}

\* the document json.loads decodes a text of JsonDocuments to: an object
\* decodes to a dict, an array to a list, null to None, a number, a string
\* and true to themselves
JsonDocument(text) ==
    CASE text = "{\"a\":1}"          -> ("a" :> 1)
      [] text = "{ \"a\" : 1 }"      -> ("a" :> 1)
      [] text = " {\"a\":1}"         -> ("a" :> 1)
      [] text = "{\"a\":2}"          -> ("a" :> 2)
      [] text = "{\"Resources\":{}}" -> ("Resources" :> EmptyDict)
      [] text = "{}"                 -> EmptyDict
      [] text = "[]"                 -> PyList(<< >>)
      [] text = "[1]"                -> PyList(<<1>>)
      [] text = "null"               -> None
      [] text = "1"                  -> 1
      [] text = "\"a\""              -> "a"
      [] text = "true"               -> TRUE

\* the message of the ValueError json.loads raises on the two texts that
\* open an object and do not go on with a quoted name
JsonErrorMessage(dec, text) ==
    CASE dec = "py" /\ text \in {"{", "{bad"} ->
            "Expecting property name enclosed in double quotes: line 1 column 2 (char 1)"
      [] dec \in {"c_str", "c_unicode"} /\ text = "{" ->
            "Expecting object: line 1 column 1 (char 0)"
      [] dec = "c_str" /\ text = "{bad" ->
            "Expecting property name: line 1 column 2 (char 1)"
      [] dec = "c_unicode" /\ text = "{bad" ->
            "Expecting property name enclosed in double quotes: line 1 column 2 (char 1)"

\* json.loads on JsonTexts under a decoder: the document, or ValueError
json_loads(dec, text) ==
    CASE text \in JsonDocuments   -> [exc |-> NoExc, doc |-> JsonDocument(text)]
      [] text \in {"{bad", "{"}   ->
            [exc |-> Exc("ValueError", JsonErrorMessage(dec, text))]

\* what open(path).read() can do: raise IOError, or return the file's text
FileOutcomes ==
    {[exc |-> Exc("IOError", "No such file or directory"), ret |-> None]}
    \cup {[exc |-> NoExc, ret |-> t] :
            t \in {"{ \"a\" : 1 }", "[]", "{"}}

\* what hc.raw_request('GET', url) can do: raise, or return a body (or nothing)
RawOutcomes ==
    {[exc |-> Exc("CommunicationError", "Error communicating with server"),
      ret |-> None]}
    \cup {[exc |-> NoExc, ret |-> t] :
            t \in {None, "", "{\"Resources\":{}}", "{bad"}}

\* what a hc.stacks.* call can do: return, or raise an error of the client
RemoteOutcomes ==
    {[exc |-> NoExc, ret |-> ""],
     [exc |-> Exc("HTTPNotFound", "HTTPNotFound (HTTP 404)"), ret |-> None],
     [exc |-> Exc("HTTPInternalServerError", "HTTPInternalServerError (HTTP 500)"),
      ret |-> None],
     [exc |-> Exc("CommunicationError", "Error communicating with server"),
      ret |-> None]}

\* a remote client: its answer to raw_request, to the command's own stacks
\* operation and to stacks.list
Clients ==
    [raw : RawOutcomes, op : RemoteOutcomes, list : RemoteOutcomes]

\* one entry of the call log
Call(op, arg, outcome) ==
    [op |-> op, arg |-> arg, exc |-> outcome.exc.kind, ret |-> outcome.ret]

---------------------------------------------------------------------------
(* _set_template_fields: given the payload built so far and the calls made *)
(* so far, the exception raised (if any), the payload and the calls after. *)

\* the template_file branch: open(args.template_file).read(), json.loads
TemplateFromFile(fs, dec, args, fields, calls) ==
    LET calls1 == Append(calls, Call("open", <<args.template_file>>, fs))
        doc    == json_loads(dec, fs.ret)
    IN  IF fs.exc # NoExc
        THEN [exc |-> fs.exc, fields |-> fields, calls |-> calls1]
        ELSE IF doc.exc # NoExc
        THEN [exc |-> doc.exc, fields |-> fields, calls |-> calls1]
        ELSE [exc |-> NoExc,
              fields |-> SetItem(fields, "template", doc.doc),
              calls |-> calls1]

\* the template_url branch: the URL is stored as it is
TemplateFromUrl(args, fields, calls) ==
    [exc |-> NoExc,
     fields |-> SetItem(fields, "template_url", args.template_url),
     calls |-> calls]

\* mutant of TemplateFromObject: the else clause is missing, so an empty
\* body leaves the payload as it is and raises nothing
TemplateFromObject_NoElse(hc, dec, args, fields, calls) ==
    LET calls1 == Append(calls, Call("raw_request",
                                     <<"GET", args.template_object>>, hc.raw))
        template_body == hc.raw.ret
        doc    == json_loads(dec, template_body)
    IN  IF hc.raw.exc # NoExc
        THEN [exc |-> hc.raw.exc, fields |-> fields, calls |-> calls1]
        ELSE IF Truthy(template_body)
        THEN IF doc.exc # NoExc
             THEN [exc |-> doc.exc, fields |-> fields, calls |-> calls1]
             ELSE [exc |-> NoExc,
                   fields |-> SetItem(fields, "template", doc.doc),
                   calls |-> calls1]
        ELSE [exc |-> NoExc, fields |-> fields, calls |-> calls1]

\* the template_object branch: hc.raw_request('GET', ...), json.loads
TemplateFromObject(hc, dec, args, fields, calls) ==
    LET calls1 == Append(calls, Call("raw_request",
                                     <<"GET", args.template_object>>, hc.raw))
        template_body == hc.raw.ret
        doc    == json_loads(dec, template_body)
    IN  IF hc.raw.exc # NoExc
        THEN [exc |-> hc.raw.exc, fields |-> fields, calls |-> calls1]
        ELSE IF Truthy(template_body)
        THEN IF doc.exc # NoExc
             THEN [exc |-> doc.exc, fields |-> fields, calls |-> calls1]
             ELSE [exc |-> NoExc,
                   fields |-> SetItem(fields, "template", doc.doc),
                   calls |-> calls1]
        ELSE [exc |-> Exc("CommandError",
                          "Could not fetch template from " \o args.template_object),
              fields |-> fields, calls |-> calls1]

\* the final else branch: no template source was given
NoTemplateSource(fields, calls) ==
    [exc |-> Exc("CommandError",
                 "Need to specify exactly one of --template-file, --template-url or --template-object"),
     fields |-> fields, calls |-> calls]

\* mutant of _set_template_fields: the URL is looked at before the file
_set_template_fields_UrlFirst(hc, fs, dec, args, fields, calls) ==
    IF Truthy(args.template_url) THEN TemplateFromUrl(args, fields, calls)
    ELSE IF Truthy(args.template_file)
    THEN TemplateFromFile(fs, dec, args, fields, calls)
    ELSE IF Truthy(args.template_object)
    THEN TemplateFromObject(hc, dec, args, fields, calls)
    ELSE NoTemplateSource(fields, calls)

\* mutant of _set_template_fields: the object is tested by an "if" of its
\* own (not "elif"), so it is fetched after the file was read as well
_set_template_fields_NoElif(hc, fs, dec, args, fields, calls) ==
    IF Truthy(args.template_file) THEN
        LET f == TemplateFromFile(fs, dec, args, fields, calls)
        IN  IF f.exc = NoExc /\ Truthy(args.template_object)
            THEN TemplateFromObject(hc, dec, args, f.fields, f.calls)
            ELSE f
    ELSE IF Truthy(args.template_url) THEN TemplateFromUrl(args, fields, calls)
    ELSE IF Truthy(args.template_object)
    THEN TemplateFromObject(hc, dec, args, fields, calls)
    ELSE NoTemplateSource(fields, calls)

_set_template_fields(hc, fs, dec, args, fields, calls) ==
    IF Truthy(args.template_file) THEN TemplateFromFile(fs, dec, args, fields, calls)
    ELSE IF Truthy(args.template_url) THEN TemplateFromUrl(args, fields, calls)
    ELSE IF Truthy(args.template_object)
    THEN TemplateFromObject(hc, dec, args, fields, calls)
    ELSE NoTemplateSource(fields, calls)

---------------------------------------------------------------------------
(* The command handlers.  A frame is what a handler has done when it ends. *)

Frame(calls, kwargs, fields, exc, out) ==
    [calls |-> calls, sent |-> kwargs, fields |-> fields, raised |-> exc,
     printed |-> out]

\* do_list, entered with the frame of the handler that calls it
do_list(hc, fr) ==
    LET kwargs == EmptyDict
        calls1 == Append(fr.calls, Call("stacks.list", << >>, hc.list))
        sent1  == Append(fr.sent, kwargs)
    IN  IF hc.list.exc # NoExc
        THEN Frame(calls1, sent1, fr.fields, hc.list.exc, fr.printed)
        ELSE Frame(calls1, sent1, fr.fields, NoExc,
                   Append(fr.printed, "print_list"))

do_create(hc, fs, dec, args) ==
    LET p == format_parameters(args.parameters)
    IN  IF p.exc # NoExc THEN Frame(<< >>, << >>, << >>, p.exc, << >>)
        ELSE
        LET fields == [stack_name  |-> args.name,
                       timeoutmins |-> args.create_timeout,
                       parameters  |-> p.value]
            t      == _set_template_fields(hc, fs, dec, args, fields, << >>)
            calls1 == Append(t.calls, Call("stacks.create", << >>, hc.op))
        IN  IF t.exc # NoExc
            THEN Frame(t.calls, << >>, <<t.fields>>, t.exc, << >>)
            ELSE IF hc.op.exc # NoExc
            THEN Frame(calls1, <<t.fields>>, <<t.fields>>, hc.op.exc, << >>)
            ELSE do_list(hc, Frame(calls1, <<t.fields>>, <<t.fields>>, NoExc, << >>))

\* mutant of do_delete: do_list in a finally clause instead of the else clause
do_delete_ListAlways(hc, args) ==
    LET fields == [stack_id |-> args.id]
        calls1 == <<Call("stacks.delete", << >>, hc.op)>>
        listed == do_list(hc, Frame(calls1, <<fields>>, <<fields>>, NoExc, << >>))
    IN  IF hc.op.exc.kind = "HTTPNotFound"
        THEN IF listed.raised # NoExc THEN listed
             ELSE [listed EXCEPT !.raised =
                      Exc("CommandError", "Stack not found: " \o args.id)]
        ELSE IF hc.op.exc # NoExc
        THEN IF listed.raised # NoExc THEN listed
             ELSE [listed EXCEPT !.raised = hc.op.exc]
        ELSE listed

do_delete(hc, args) ==
    LET fields == [stack_id |-> args.id]
        calls1 == <<Call("stacks.delete", << >>, hc.op)>>
    IN  IF hc.op.exc.kind = "HTTPNotFound"
        THEN Frame(calls1, <<fields>>, <<fields>>,
                   Exc("CommandError", "Stack not found: " \o args.id), << >>)
        ELSE IF hc.op.exc # NoExc
        THEN Frame(calls1, <<fields>>, <<fields>>, hc.op.exc, << >>)
        ELSE do_list(hc, Frame(calls1, <<fields>>, <<fields>>, NoExc, << >>))

do_describe(hc, args) ==
    LET fields == [stack_id |-> args.id]
        calls1 == <<Call("stacks.get", << >>, hc.op)>>
    IN  IF hc.op.exc.kind = "HTTPNotFound"
        THEN Frame(calls1, <<fields>>, <<fields>>,
                   Exc("CommandError", "Stack not found: " \o args.id), << >>)
        ELSE IF hc.op.exc # NoExc
        THEN Frame(calls1, <<fields>>, <<fields>>, hc.op.exc, << >>)
        ELSE Frame(calls1, <<fields>>, <<fields>>, NoExc, <<"print_dict">>)

do_update(hc, fs, dec, args) ==
    LET p == format_parameters(args.parameters)
    IN  IF p.exc # NoExc THEN Frame(<< >>, << >>, << >>, p.exc, << >>)
        ELSE
        LET fields == [stack_id   |-> args.id,
                       parameters |-> p.value]
            t      == _set_template_fields(hc, fs, dec, args, fields, << >>)
            calls1 == Append(t.calls, Call("stacks.update", << >>, hc.op))
        IN  IF t.exc # NoExc
            THEN Frame(t.calls, << >>, <<t.fields>>, t.exc, << >>)
            ELSE IF hc.op.exc # NoExc
            THEN Frame(calls1, <<t.fields>>, <<t.fields>>, hc.op.exc, << >>)
            ELSE do_list(hc, Frame(calls1, <<t.fields>>, <<t.fields>>, NoExc, << >>))

\* mutant of do_gettemplate: no except clause around hc.stacks.template
do_gettemplate_NoExcept(hc, args) ==
    LET fields == [stack_id |-> args.id]
        calls1 == <<Call("stacks.template", << >>, hc.op)>>
    IN  IF hc.op.exc # NoExc
        THEN Frame(calls1, <<fields>>, <<fields>>, hc.op.exc, << >>)
        ELSE Frame(calls1, <<fields>>, <<fields>>, NoExc, <<"print json.dumps">>)

do_gettemplate(hc, args) ==
    LET fields == [stack_id |-> args.id]
        calls1 == <<Call("stacks.template", << >>, hc.op)>>
    IN  IF hc.op.exc.kind = "HTTPNotFound"
        THEN Frame(calls1, <<fields>>, <<fields>>,
                   Exc("CommandError", "Stack not found: " \o args.id), << >>)
        ELSE IF hc.op.exc # NoExc
        THEN Frame(calls1, <<fields>>, <<fields>>, hc.op.exc, << >>)
        ELSE Frame(calls1, <<fields>>, <<fields>>, NoExc, <<"print json.dumps">>)

\* mutant of do_validate: the template is resolved before the parameters
\* are parsed
do_validate_TemplateFirst(hc, fs, dec, args) ==
    LET t == _set_template_fields(hc, fs, dec, args, EmptyDict, << >>)
        p == format_parameters(args.parameters)
    IN  IF t.exc # NoExc THEN Frame(t.calls, << >>, <<t.fields>>, t.exc, << >>)
        ELSE IF p.exc # NoExc
        THEN Frame(t.calls, << >>, <<t.fields>>, p.exc, << >>)
        ELSE
        LET fields == SetItem(t.fields, "parameters", p.value)
            calls1 == Append(t.calls, Call("stacks.validate", << >>, hc.op))
        IN  IF hc.op.exc # NoExc
            THEN Frame(calls1, <<fields>>, <<fields>>, hc.op.exc, << >>)
            ELSE Frame(calls1, <<fields>>, <<fields>>, NoExc,
                       <<"print json.dumps">>)

do_validate(hc, fs, dec, args) ==
    LET p == format_parameters(args.parameters)
    IN  IF p.exc # NoExc THEN Frame(<< >>, << >>, << >>, p.exc, << >>)
        ELSE
        LET fields == [parameters |-> p.value]
            t      == _set_template_fields(hc, fs, dec, args, fields, << >>)
            calls1 == Append(t.calls, Call("stacks.validate", << >>, hc.op))
        IN  IF t.exc # NoExc
            THEN Frame(t.calls, << >>, <<t.fields>>, t.exc, << >>)
            ELSE IF hc.op.exc # NoExc
            THEN Frame(calls1, <<t.fields>>, <<t.fields>>, hc.op.exc, << >>)
            ELSE Frame(calls1, <<t.fields>>, <<t.fields>>, NoExc,
                       <<"print json.dumps">>)

---------------------------------------------------------------------------
(* The command line: what the driver can hand to a handler. *)

\* -c/--create-timeout when the flag is not given
DefaultCreateTimeout == 60

TemplateFiles   == {None, "", "t.json"}
TemplateUrls    == {None, "", "http://t/u"}
TemplateObjects == {None, "", "http://swift/o"}
Names           == {"foo"}
Ids             == {"s1", "s2"}
TimeoutFlags    == {<< >>, <<30>>}
ArgParams       == {NoParams} \cup {Params(s) : s \in StringsUpTo(MaxArgLen, ArgAlphabet)}

TemplateArgs ==
    [template_file : TemplateFiles, template_url : TemplateUrls,
     template_object : TemplateObjects, parameters : ArgParams]

\* the argument parser's default for -c/--create-timeout
CreateTimeout(flag) == IF flag = << >> THEN DefaultCreateTimeout ELSE flag[1]

\* the arguments records the argument parser builds for each subcommand
CreateArgs(flag) ==
    {[name |-> name, create_timeout |-> CreateTimeout(flag),
      parameters |-> t.parameters,
      template_file |-> t.template_file,
      template_url |-> t.template_url,
      template_object |-> t.template_object] : t \in TemplateArgs, name \in Names}
UpdateArgs ==
    {[id |-> id,
      parameters |-> t.parameters,
      template_file |-> t.template_file,
      template_url |-> t.template_url,
      template_object |-> t.template_object] : t \in TemplateArgs, id \in Ids}
IdArgs == {[id |-> id] : id \in Ids}

\* the driver has parsed the command line: the subcommand and its arguments
\* are known, the handler has not run
Init ==
    /\ pc = "ready"
    /\ log = << >>
    /\ sent = << >>
    /\ payload = << >>
    /\ raised = NoExc
    /\ printed = << >>
    /\ parsed = << >>
    /\ \/ /\ cmd = "create"
          /\ cli \in TimeoutFlags
          /\ arguments \in CreateArgs(cli)
       \/ /\ cmd \in {"delete", "describe", "gettemplate"}
          /\ cli = << >>
          /\ arguments \in IdArgs
       \/ /\ cmd = "update"
          /\ cli = << >>
          /\ arguments \in UpdateArgs
       \/ /\ cmd = "list"
          /\ cli = << >>
          /\ arguments = EmptyDict
       \/ /\ cmd = "validate"
          /\ cli = << >>
          /\ arguments \in TemplateArgs

\* the handler ran and ended in frame fr
Finish(fr) ==
    /\ pc' = "done"
    /\ log' = fr.calls
    /\ sent' = fr.sent
    /\ payload' = fr.fields
    /\ raised' = fr.raised
    /\ printed' = fr.printed
    /\ UNCHANGED <<cmd, cli, arguments, parsed>>

Create ==
    /\ pc = "ready" /\ cmd = "create"
    /\ \E hc \in Clients, fs \in FileOutcomes, dec \in Decoders :
          Finish(do_create(hc, fs, dec, arguments))

Delete ==
    /\ pc = "ready" /\ cmd = "delete"
    /\ \E hc \in Clients : Finish(do_delete(hc, arguments))

Describe ==
    /\ pc = "ready" /\ cmd = "describe"
    /\ \E hc \in Clients : Finish(do_describe(hc, arguments))

Update ==
    /\ pc = "ready" /\ cmd = "update"
    /\ \E hc \in Clients, fs \in FileOutcomes, dec \in Decoders :
          Finish(do_update(hc, fs, dec, arguments))

List ==
    /\ pc = "ready" /\ cmd = "list"
    /\ \E hc \in Clients :
          Finish(do_list(hc, Frame(<< >>, << >>, << >>, NoExc, << >>)))

GetTemplate ==
    /\ pc = "ready" /\ cmd = "gettemplate"
    /\ \E hc \in Clients : Finish(do_gettemplate(hc, arguments))

Validate ==
    /\ pc = "ready" /\ cmd = "validate"
    /\ \E hc \in Clients, fs \in FileOutcomes, dec \in Decoders :
          Finish(do_validate(hc, fs, dec, arguments))

Next ==
    \/ Create
    \/ Delete
    \/ Describe
    \/ Update
    \/ List
    \/ GetTemplate
    \/ Validate

Spec == Init /\ [][Next]_vars

---------------------------------------------------------------------------
(* format_parameters on its own: the input is drawn, the function applied. *)

ParseInputs == {NoParams} \cup {Params(s) : s \in StringsUpTo(MaxLen, Alphabet)}

InitParse ==
    /\ pc = "ready"
    /\ cmd = ""
    /\ cli = << >>
    /\ arguments \in {[parameters |-> p] : p \in ParseInputs}
    /\ log = << >>
    /\ sent = << >>
    /\ payload = << >>
    /\ raised = NoExc
    /\ printed = << >>
    /\ parsed = << >>

FormatParameters ==
    /\ pc = "ready"
    /\ pc' = "done"
    /\ parsed' = << format_parameters(arguments.parameters) >>
    /\ UNCHANGED <<cmd, cli, arguments, log, sent, payload, raised, printed>>

NextParse == FormatParameters

SpecParse == InitParse /\ [][NextParse]_vars

---------------------------------------------------------------------------
(* Vocabulary of the properties.                                           *)

Done == pc = "done"

TemplateCmds == {"create", "update", "validate"}
LookupCmds   == {"delete", "describe", "gettemplate"}

\* the hc.stacks operation that belongs to a command
RemoteOp(c) ==
    CASE c = "create"      -> "stacks.create"
      [] c = "delete"      -> "stacks.delete"
      [] c = "describe"    -> "stacks.get"
      [] c = "update"      -> "stacks.update"
      [] c = "list"        -> "stacks.list"
      [] c = "gettemplate" -> "stacks.template"
      [] c = "validate"    -> "stacks.validate"
      [] OTHER             -> ""

StacksOps == {"stacks.create", "stacks.delete", "stacks.get", "stacks.update",
              "stacks.list", "stacks.template", "stacks.validate"}

\* the positions of the log at which one of the operations ops was called
At(ops)    == {i \in DOMAIN log : log[i].op \in ops}
Count(ops) == Cardinality(At(ops))

\* which template source the arguments select (non-empty = given and not '')
FileSet   == arguments.template_file \notin {None, ""}
UrlSet    == arguments.template_url \notin {None, ""}
ObjectSet == arguments.template_object \notin {None, ""}
NumSet    == Cardinality({k \in {"template_file", "template_url", "template_object"} :
                             arguments[k] \notin {None, ""}})

FileSelected   == FileSet
UrlSelected    == ~FileSet /\ UrlSet
ObjectSelected == ~FileSet /\ ~UrlSet /\ ObjectSet

NeedExactlyOne ==
    "Need to specify exactly one of --template-file, --template-url or --template-object"

---------------------------------------------------------------------------
(* The reference parser of parameter strings, stated on positions: a       *)
(* segment runs from the start of the text or the character after a ';'    *)
(* up to the next ';' or the end of the text.                              *)

SegStarts(s) == {1} \cup {i + 1 : i \in {j \in 1..Len(s) : s[j] = ";"}}

SegEnd(s, a) ==
    LET stops == {j \in a..Len(s) : s[j] = ";"} \cup {Len(s) + 1}
    IN  (CHOOSE j \in stops : \A k \in stops : j <= k) - 1

Seg(s, a) == SubSeq(s, a, SegEnd(s, a))

EqAt(seg) == {i \in 1..Len(seg) : seg[i] = "="}

RefKey(seg) == SubSeq(seg, 1, (CHOOSE i \in EqAt(seg) : TRUE) - 1)
RefVal(seg) == SubSeq(seg, (CHOOSE i \in EqAt(seg) : TRUE) + 1, Len(seg))

\* every segment holds exactly one '='
RefWellFormed(s) == \A a \in SegStarts(s) : Cardinality(EqAt(Seg(s, a))) = 1

\* each key mapped to the value of its last segment
RefMap(s) ==
    [k \in {RefKey(Seg(s, a)) : a \in SegStarts(s)} |->
        RefVal(Seg(s, CHOOSE a \in SegStarts(s) :
                        /\ RefKey(Seg(s, a)) = k
                        /\ \A b \in SegStarts(s) :
                              RefKey(Seg(s, b)) = k => b <= a))]

RefEmpty(p) == ~p.given \/ p.text = << >>

\* the parameter string parses: it is absent, empty or well-formed
RefParses(p) == RefEmpty(p) \/ RefWellFormed(p.text)

RefDict(p) == IF RefEmpty(p) THEN EmptyDict ELSE RefMap(p.text)

---------------------------------------------------------------------------
(* C7: format_parameters agrees with the reference parser on every string  *)
(* of up to MaxLen characters over ';', '=', ' ', 'a', 'b' and on None: an *)
(* absent or empty input gives the empty map; an input whose segments all  *)
(* hold exactly one '=' gives the map from each text before '=' to the     *)
(* text after it, untrimmed, the last duplicate winning; any other input   *)
(* raises and yields no map.                                               *)
C7_AgreesWithReference ==
    (pc = "done" /\ cmd = "") =>
        LET p == arguments.parameters
            r == parsed[1]
        IN  IF RefParses(p)
            THEN r.exc = NoExc /\ r.value = RefDict(p)
            ELSE r.exc.kind = "ValueError" /\ "value" \notin DOMAIN r

\* a duplicated key whose last value won, with a space kept in the value
C7_Witness ==
    /\ pc = "done" /\ cmd = ""
    /\ arguments.parameters = Params(<<"a", "=", ";", "a", "=", " ">>)
    /\ parsed[1].exc = NoExc
    /\ parsed[1].value = (<<"a">> :> <<" ">>)

---------------------------------------------------------------------------
(* C1: in create, update and validate, when _set_template_fields returned  *)
(* normally (the command's stacks operation was called) the payload passed *)
(* holds exactly one of 'template' and 'template_url', chosen file > url > *)
(* object whatever else is set: a non-empty template_file gives 'template' *)
(* = the decoded file text and no raw_request; else a non-empty            *)
(* template_url gives 'template_url' = that string, with no file read and  *)
(* no raw_request; else a non-empty template_object gives 'template' = the *)
(* decoded body that raw_request('GET', template_object) returned.         *)
C1_TemplatePriority ==
    (Done /\ cmd \in TemplateCmds /\ Count({RemoteOp(cmd)}) > 0) =>
        LET kw == sent[1]
        IN  /\ ("template" \in DOMAIN kw) # ("template_url" \in DOMAIN kw)
            /\ FileSelected =>
                  /\ "template" \in DOMAIN kw
                  /\ log[1].op = "open" /\ log[1].arg = <<arguments.template_file>>
                  /\ kw.template = JsonDocument(log[1].ret)
                  /\ Count({"raw_request"}) = 0
            /\ UrlSelected =>
                  /\ "template_url" \in DOMAIN kw
                  /\ kw.template_url = arguments.template_url
                  /\ Count({"open", "raw_request"}) = 0
            /\ ObjectSelected =>
                  /\ "template" \in DOMAIN kw
                  /\ log[1].op = "raw_request"
                  /\ log[1].arg = <<"GET", arguments.template_object>>
                  /\ kw.template = JsonDocument(log[1].ret)
                  /\ Count({"open"}) = 0
            /\ FileSelected \/ UrlSelected \/ ObjectSelected

\* all three sources given, the file won and its decoded text was sent
C1_Witness ==
    /\ Done /\ cmd = "update"
    /\ FileSet /\ UrlSet /\ ObjectSet
    /\ Count({"stacks.update"}) = 1
    /\ log[1].ret = "{ \"a\" : 1 }"
    /\ sent[1].template = ("a" :> 1)
    /\ "template_url" \notin DOMAIN sent[1]

---------------------------------------------------------------------------
(* C2: in create, update and validate, whenever more than one of           *)
(* template_file, template_url, template_object is non-empty the command   *)
(* fails with a CommandError and the command's stacks operation is not     *)
(* called.                                                                 *)
C2_ConflictIsUserError ==
    (Done /\ cmd \in TemplateCmds /\ NumSet > 1) =>
        /\ raised.kind = "CommandError"
        /\ Count({RemoteOp(cmd)}) = 0

---------------------------------------------------------------------------
(* C3 as stated: in create, update and validate, when none of the three    *)
(* template arguments is set the command raises CommandError 'Need to      *)
(* specify exactly one of ...' and issues no raw_request and no stacks     *)
(* call.                                                                   *)
C3_Original ==
    (Done /\ cmd \in TemplateCmds /\ NumSet = 0) =>
        /\ raised = Exc("CommandError", NeedExactlyOne)
        /\ Count({"raw_request"} \cup StacksOps) = 0

(* C3 as amended: when none of the three template arguments is set, no     *)
(* raw_request and no stacks call is issued (and no file is read); the     *)
(* command raises CommandError 'Need to specify exactly one of ...' when   *)
(* the parameter string is absent, empty or well-formed, and the parameter *)
(* error (ValueError) when it is malformed.                                *)
C3_NoSourceFails ==
    (Done /\ cmd \in TemplateCmds /\ NumSet = 0) =>
        /\ log = << >>
        /\ sent = << >>
        /\ IF RefParses(arguments.parameters)
           THEN raised = Exc("CommandError", NeedExactlyOne)
           ELSE raised.kind = "ValueError"

\* no source, one empty, a well-formed parameter string: the CommandError
C3_Witness ==
    /\ Done /\ cmd = "create"
    /\ arguments.template_file = None
    /\ arguments.template_url = ""
    /\ arguments.template_object = None
    /\ arguments.parameters = Params(<<"a", "=", "a">>)
    /\ raised = Exc("CommandError", NeedExactlyOne)
    /\ log = << >>

---------------------------------------------------------------------------
(* What C4 says of one fetch: raw_request was called with ('GET',          *)
(* template_object); an empty body gives CommandError 'Could not fetch     *)
(* template from <template_object>', no 'template' key and no stacks       *)
(* operation; a non-empty body is decoded and stored as 'template'.        *)
FetchOutcome ==
    /\ log[1].op = "raw_request"
    /\ log[1].arg = <<"GET", arguments.template_object>>
    /\ (log[1].exc = "" /\ log[1].ret \in {None, ""}) =>
          /\ raised = Exc("CommandError", "Could not fetch template from "
                                             \o arguments.template_object)
          /\ "template" \notin DOMAIN payload[1]
          /\ Count({RemoteOp(cmd)}) = 0
    /\ (log[1].exc = "" /\ log[1].ret \notin {None, ""}) =>
          IF log[1].ret \in JsonDocuments
          THEN payload[1].template = JsonDocument(log[1].ret)
          ELSE /\ raised \in {json_loads(d, log[1].ret).exc : d \in Decoders}
               /\ "template" \notin DOMAIN payload[1]

(* C4 as stated: when template_object is the selected source, raw_request  *)
(* is issued exactly once in the invocation, with the outcome above; it is *)
(* never issued when the file or the URL is the selected source.           *)
C4_Original ==
    (Done /\ cmd \in TemplateCmds) =>
        /\ ObjectSelected => (Count({"raw_request"}) = 1 /\ FetchOutcome)
        /\ (FileSelected \/ UrlSelected) => Count({"raw_request"}) = 0

(* C4 as amended: when template_object is the selected source, raw_request *)
(* is issued at most once in the invocation: exactly once, with the        *)
(* outcome above, when the parameter string is absent, empty or            *)
(* well-formed, and not at all when it is malformed (the command has       *)
(* failed before the fetch); it is never issued when the file or the URL   *)
(* is the selected source.                                                 *)
C4_ObjectFetch ==
    (Done /\ cmd \in TemplateCmds) =>
        /\ ObjectSelected =>
              IF RefParses(arguments.parameters)
              THEN Count({"raw_request"}) = 1 /\ FetchOutcome
              ELSE Count({"raw_request"}) = 0
        /\ (FileSelected \/ UrlSelected) => Count({"raw_request"}) = 0

\* the object is selected, the fetch returned '' and the command failed
C4_Witness ==
    /\ Done /\ cmd = "validate"
    /\ ObjectSelected
    /\ arguments.parameters = Params(<<"a", "=">>)
    /\ Len(log) = 1 /\ log[1].op = "raw_request"
    /\ log[1].exc = "" /\ log[1].ret = ""
    /\ raised = Exc("CommandError", "Could not fetch template from http://swift/o")
    /\ payload = <<[parameters |-> (<<"a">> :> << >>)]>>

---------------------------------------------------------------------------
(* C5: in delete, describe and gettemplate, when the command's stacks      *)
(* operation raises HTTPNotFound the command raises CommandError 'Stack    *)
(* not found: <id>' with the caller's id (the raw error does not reach the *)
(* caller); any other error of that operation reaches the caller as it was *)
(* raised.                                                                 *)
C5_NotFoundTranslated ==
    (Done /\ cmd \in LookupCmds) =>
        /\ Len(log) >= 1
        /\ log[1].op = RemoteOp(cmd)
        /\ log[1].exc = "HTTPNotFound" =>
              raised = Exc("CommandError", "Stack not found: " \o arguments.id)
        /\ log[1].exc \notin {"", "HTTPNotFound"} =>
              /\ raised.kind = log[1].exc
              /\ raised \in {r.exc : r \in RemoteOutcomes}
              /\ Len(log) = 1

\* gettemplate of "s2" met a not-found and reported it as a CommandError
C5_Witness ==
    /\ Done /\ cmd = "gettemplate"
    /\ arguments.id = "s2"
    /\ log[1].op = "stacks.template" /\ log[1].exc = "HTTPNotFound"
    /\ raised = Exc("CommandError", "Stack not found: s2")

---------------------------------------------------------------------------
(* The payload C6 names for the mutating call: create sends stack_name,    *)
(* timeoutmins (60 when -c is not given) and the parsed parameters plus    *)
(* one template field; update sends stack_id, the parsed parameters and    *)
(* one template field; delete sends stack_id alone.                        *)
MutatingPayload ==
    LET kw   == sent[1]
        rest == (DOMAIN kw) \ {"template", "template_url"}
        one  == Cardinality((DOMAIN kw) \cap {"template", "template_url"}) = 1
    IN  CASE cmd = "create" ->
               /\ rest = {"stack_name", "timeoutmins", "parameters"} /\ one
               /\ kw.stack_name = arguments.name
               /\ kw.timeoutmins = (IF cli = << >> THEN 60 ELSE cli[1])
               /\ kw.parameters = RefDict(arguments.parameters)
          [] cmd = "update" ->
               /\ rest = {"stack_id", "parameters"} /\ one
               /\ kw.stack_id = arguments.id
               /\ kw.parameters = RefDict(arguments.parameters)
          [] cmd = "delete" ->
               /\ DOMAIN kw = {"stack_id"}
               /\ kw.stack_id = arguments.id

\* stacks.list is issued once, after the mutating call, iff that call
\* returned; never when it raised
ListFollows ==
    LET i == CHOOSE i \in At({RemoteOp(cmd)}) : TRUE
    IN  IF log[i].exc = ""
        THEN Count({"stacks.list"}) = 1 /\ \A j \in At({"stacks.list"}) : j > i
        ELSE Count({"stacks.list"}) = 0

\* the template source of the arguments was read and decoded
Resolved ==
    \/ UrlSelected
    \/ /\ FileSelected \/ ObjectSelected
       /\ \E i \in At({"open", "raw_request"}) :
             /\ log[i].exc = ""
             /\ log[i].ret \notin {None, ""}
             /\ log[i].ret \in JsonDocuments

(* C6 as stated: every create, update or delete invocation issues its      *)
(* mutating call exactly once, with the payload above, and stacks.list     *)
(* once and after it iff it returned; describe, gettemplate and validate   *)
(* never issue stacks.list.                                                *)
C6_Original ==
    Done =>
        /\ cmd \in {"create", "update", "delete"} =>
              /\ Count({RemoteOp(cmd)}) = 1
              /\ MutatingPayload
              /\ ListFollows
        /\ cmd \in {"describe", "gettemplate", "validate"} =>
              Count({"stacks.list"}) = 0

(* C6 as amended: a create, update or delete invocation issues its         *)
(* mutating call at most once: exactly once in every delete, and in a      *)
(* create or update exactly when the parameter string parsed and the       *)
(* template source was resolved; when it is issued it carries the payload  *)
(* above and stacks.list follows once iff it returned; when it is not      *)
(* issued no stacks.list is issued either; describe, gettemplate and       *)
(* validate never issue stacks.list.                                       *)
C6_ListAfterMutation ==
    Done =>
        /\ cmd \in {"create", "update", "delete"} =>
              IF cmd = "delete" \/ (RefParses(arguments.parameters) /\ Resolved)
              THEN /\ Count({RemoteOp(cmd)}) = 1
                   /\ MutatingPayload
                   /\ ListFollows
              ELSE Count(StacksOps) = 0
        /\ cmd \in {"describe", "gettemplate", "validate"} =>
              Count({"stacks.list"}) = 0

\* create of "foo" from a template file, no -c and no -P: the create call
\* carries timeoutmins 60 and empty parameters, and the list call follows
C6_Witness ==
    /\ Done /\ cmd = "create"
    /\ cli = << >> /\ arguments.parameters = NoParams
    /\ Len(log) = 3
    /\ log[1].op = "open" /\ log[2].op = "stacks.create" /\ log[3].op = "stacks.list"
    /\ log[1].ret = "{ \"a\" : 1 }"
    /\ sent[1] = [stack_name |-> "foo", timeoutmins |-> 60,
                  parameters |-> EmptyDict, template |-> ("a" :> 1)]
    /\ sent[2] = EmptyDict
    /\ raised = NoExc

---------------------------------------------------------------------------
(* C8: every failure of a command reaches the caller as a CommandError,    *)
(* but for a transport failure or a failure to read the template file: an  *)
(* error of another kind is the error that the last blocking call (a       *)
(* stacks operation, raw_request, or the file read) raised.  A malformed   *)
(* parameter string and a template text that is not JSON are therefore     *)
(* CommandErrors.                                                          *)
C8_SingleErrorKind ==
    (Done /\ raised # NoExc /\ raised.kind # "CommandError") =>
        /\ Len(log) > 0
        /\ log[Len(log)].exc = raised.kind

---------------------------------------------------------------------------
(* C9 as stated: an invocation makes at most one call on the remote stacks *)
(* API, at most one raw_request and only when template_object is the       *)
(* selected source, and at most one file read, which comes after the       *)
(* network calls.                                                          *)
C9_Original ==
    Done =>
        /\ Count(StacksOps) <= 1
        /\ Count({"raw_request"}) <= 1
        /\ Count({"raw_request"}) = 1 => (cmd \in TemplateCmds /\ ObjectSelected)
        /\ Count({"open"}) <= 1
        /\ \A i \in At({"open"}) :
              \A j \in At(StacksOps \cup {"raw_request"}) : j < i

(* C9 as amended: an invocation makes at most one call of the command's    *)
(* own stacks operation, followed, in create, update and delete only, by   *)
(* at most one stacks.list call (at most two calls on the remote stacks    *)
(* API); at most one raw_request, and only when template_object is the     *)
(* selected source; at most one file read, which comes before the stacks   *)
(* calls and never in an invocation that issues a raw_request.             *)
C9_BlockingCalls ==
    Done =>
        /\ Count({RemoteOp(cmd)}) <= 1
        /\ Count(StacksOps \ {RemoteOp(cmd), "stacks.list"}) = 0
        /\ Count({"stacks.list"}) <= 1
        /\ cmd \in {"describe", "gettemplate", "validate"} =>
              Count({"stacks.list"}) = 0
        /\ \A i \in At({RemoteOp(cmd)}) : \A j \in At({"stacks.list"}) : i <= j
        /\ Count({"raw_request"}) <= 1
        /\ Count({"raw_request"}) = 1 => (cmd \in TemplateCmds /\ ObjectSelected)
        /\ Count({"open"}) <= 1
        /\ Count({"open"}) = 1 => Count({"raw_request"}) = 0
        /\ \A i \in At({"open"}) : \A j \in At(StacksOps) : i < j

\* update from a template file: the read, then stacks.update, then stacks.list
C9_Witness ==
    /\ Done /\ cmd = "update"
    /\ Len(log) = 3
    /\ log[1].op = "open" /\ log[1].arg = <<"t.json">>
    /\ log[2].op = "stacks.update" /\ log[2].exc = ""
    /\ log[3].op = "stacks.list"

---------------------------------------------------------------------------
(* C10: create, update and validate parse the parameters, then resolve the *)
(* template source, then call the stacks operation.  A malformed parameter *)
(* string ends the command before any file read, raw_request or stacks     *)
(* call, with the parameter error and not a CommandError, also when no     *)
(* template source is given; a failure of the template resolution is only  *)
(* reported for a parameter string that is absent, empty or well-formed,   *)
(* and the resolution works on a payload that holds the parsed parameters. *)
C10_ParametersFirst ==
    (Done /\ cmd \in TemplateCmds) =>
        /\ ~RefParses(arguments.parameters) =>
              /\ log = << >> /\ sent = << >> /\ payload = << >>
              /\ raised.kind = "ValueError"
              /\ raised.msg \in {"need more than 1 value to unpack",
                                 "too many values to unpack"}
        /\ (raised # NoExc /\ Count(StacksOps) = 0 /\ raised.kind # "ValueError") =>
              RefParses(arguments.parameters)
        /\ (raised.kind = "CommandError" \/ Len(log) > 0) =>
              /\ RefParses(arguments.parameters)
              /\ Len(payload) = 1
              /\ "parameters" \in DOMAIN payload[1]
              /\ payload[1].parameters = RefDict(arguments.parameters)
        /\ \A i \in At({"open", "raw_request"}) : \A j \in At(StacksOps) : i < j

\* validate without a template source and with the malformed string "a;":
\* the parameter error, and nothing was called
C10_Witness ==
    /\ Done /\ cmd = "validate"
    /\ NumSet = 0
    /\ arguments.parameters = Params(<<"a", ";">>)
    /\ raised = Exc("ValueError", "need more than 1 value to unpack")
    /\ log = << >>

====
